---- MODULE Spec2Model ----
(***************************************************************************)
(* simple_orm: the dictionary filter compiler (query/_helpers.py), the     *)
(* QueryBuilder (query/builder.py, query/run.py) and the generic CRUD      *)
(* handlers (handlers/*.py, models/base.py) over one record type, User,    *)
(* with the columns id (primary key), age and status.                      *)
(*                                                                         *)
(* Encodings.  A Python mapping (dict) is a sequence of entries with       *)
(* distinct keys, in insertion order.  A filter or payload value is either *)
(* a literal or an operator map.  An operand is a tuple of integers: <<x>> *)
(* for a scalar operand, <<lo, hi>> for a range, <<x, y, ..>> for a list.  *)
(* None / SQL NULL is the integer Null.                                    *)
(***************************************************************************)
EXTENDS Integers, Sequences, FiniteSets, TLC

VARIABLES store, committed, nextId, schemas, bound, primary_key_column, qb, last, pc

vars == <<store, committed, nextId, schemas, bound, primary_key_column, qb, last, pc>>

\* ------------------------------------------------------------------ bounds
MaxId == 2
MaxOps == 2
MaxGroups == 2

\* ------------------------------------------------------------- record type
Null == 0 - 1
Vals == {1, 2}
ColVals == Vals \cup {Null}
DeclaredFields == {"id", "age", "status"}
\* attributes of the model class that are not mapped columns
ClassAttrs == {"bind_crud"}
Names == DeclaredFields \cup ClassAttrs \cup {"nosuch"}
HasAttr(name) == name \in DeclaredFields \cup ClassAttrs
RecordUniverse == [id : 1..MaxId, age : ColVals, status : ColVals]

\* ---------------------------------------------------------------- mappings
Lit(v) == [t |-> "lit", v |-> v, m |-> <<>>]
Map(m) == [t |-> "map", v |-> Null, m |-> m]
Op(op, a) == [op |-> op, a |-> a]
Entry(key, val) == [key |-> key, val |-> val]
Keys(d) == {d[i].key : i \in DOMAIN d}
Get(d, key) == d[CHOOSE i \in DOMAIN d : d[i].key = key].val

\* --------------------------------------------------- compiled conditions
NoCond == [k |-> "none", f |-> "", op |-> "", a |-> <<>>, args |-> <<>>]
Cmp(f, op, a) == [k |-> "cmp", f |-> f, op |-> op, a |-> a, args |-> <<>>]
Const(b) == [k |-> "const", f |-> "", op |-> IF b THEN "true" ELSE "false", a |-> <<>>, args |-> <<>>]
And(args) == [k |-> "and", f |-> "", op |-> "", a |-> <<>>, args |-> args]
Or(args) == [k |-> "or", f |-> "", op |-> "", a |-> <<>>, args |-> args]
Not(c) == [k |-> "not", f |-> "", op |-> "", a |-> <<>>, args |-> <<c>>]

Bool3(b) == IF b THEN "T" ELSE "F"
Neg3(t) == IF t = "T" THEN "F" ELSE IF t = "F" THEN "T" ELSE "U"
Elems(a) == {a[i] : i \in DOMAIN a}

\* the engine's evaluation of one column predicate on a column value x
LeafEval(op, x, a) ==
  IF op = "isnull" THEN Bool3((x = Null) = (a[1] # 0))
  ELSE IF op = "isnotnull" THEN Bool3((x # Null) = (a[1] # 0))
  ELSE IF op = "eq" /\ a[1] = Null THEN Bool3(x = Null)
  ELSE IF op = "ne" /\ a[1] = Null THEN Bool3(x # Null)
  ELSE IF x = Null THEN "U"
  ELSE IF op = "eq" THEN Bool3(x = a[1])
  ELSE IF op = "ne" THEN Bool3(x # a[1])
  ELSE IF op = "gt" THEN Bool3(x > a[1])
  ELSE IF op = "gte" THEN Bool3(x >= a[1])
  ELSE IF op = "lt" THEN Bool3(x < a[1])
  ELSE IF op = "lte" THEN Bool3(x <= a[1])
  ELSE IF op = "in" THEN Bool3(x \in Elems(a))
  ELSE IF op = "not_in" THEN Bool3(x \notin Elems(a))
  ELSE IF op \in {"range", "between"} THEN Bool3(a[1] <= x /\ x <= a[2])
  ELSE IF op = "not_between" THEN Bool3(~(a[1] <= x /\ x <= a[2]))
  ELSE "U"

RECURSIVE Eval(_, _)
Eval(c, r) ==
  IF c.k = "const" THEN Bool3(c.op = "true")
  ELSE IF c.k = "cmp" THEN LeafEval(c.op, r[c.f], c.a)
  ELSE IF c.k = "not" THEN Neg3(Eval(c.args[1], r))
  ELSE LET vs == {Eval(c.args[i], r) : i \in DOMAIN c.args} IN
    IF c.k = "and"
    THEN (IF "F" \in vs THEN "F" ELSE IF "U" \in vs THEN "U" ELSE "T")
    ELSE (IF "T" \in vs THEN "T" ELSE IF "U" \in vs THEN "U" ELSE "F")

\* a row is selected by a WHERE clause iff the clause evaluates to true
Matches(c, r) == Eval(c, r) = "T"

\* ------------------------------------------------------ condition compiler
OPERATORS_noday ==
  {"gt", "gte", "lt", "lte", "ne", "in", "not_in",
   "like", "contains", "startswith", "endswith",
   "ilike", "icontains", "istartswith", "iendswith",
   "range", "between", "not_between", "isnull", "isnotnull",
   "year", "month"}

OPERATORS ==
  {"gt", "gte", "lt", "lte", "ne", "in", "not_in",
   "like", "contains", "startswith", "endswith",
   "ilike", "icontains", "istartswith", "iendswith",
   "range", "between", "not_between", "isnull", "isnotnull",
   "year", "month", "day"}

\* `column == value` / `column != value` on the attribute named field: a
\* mapped column gives a SQL comparison, any other attribute compares the
\* Python objects and gives the constant False / True
Compare(field, op, a) ==
  IF field \in DeclaredFields THEN Cmp(field, op, a) ELSE Const(op = "ne")

EntryError_noexact(field, e) ==
  IF e.op \notin OPERATORS THEN "UnsupportedOperator"
  ELSE IF field \in DeclaredFields \/ e.op = "ne" THEN "none"
  ELSE "TypeError"

\* the error raised while compiling one operator entry, "none" if none: an
\* unknown key is a ValueError, a catalog lambda applied to an attribute
\* that is no column fails in Python
EntryError(field, e) ==
  IF e.op = "exact" THEN "none"
  ELSE IF e.op \notin OPERATORS THEN "UnsupportedOperator"
  ELSE IF field \in DeclaredFields \/ e.op = "ne" THEN "none"
  ELSE "TypeError"

EntryCond(field, e) ==
  IF e.op = "exact" THEN Compare(field, "eq", e.a) ELSE Compare(field, e.op, e.a)

FirstError(field, m) ==
  IF \E i \in DOMAIN m : EntryError(field, m[i]) # "none"
  THEN CHOOSE i \in DOMAIN m :
         /\ EntryError(field, m[i]) # "none"
         /\ \A j \in 1..(i - 1) : EntryError(field, m[j]) = "none"
  ELSE 0

Combine_or(conditions) ==
  IF Len(conditions) = 1 THEN conditions[1] ELSE Or(conditions)

\* the conditions of one field: a single one as it is, several under and_
Combine(conditions) ==
  IF Len(conditions) = 1 THEN conditions[1] ELSE And(conditions)

\* parse_condition(model_class, field_name, value); examined is the number of
\* operator keys the loop has looked at when it returns or raises
parse_condition(field, value) ==
  IF ~HasAttr(field)
  THEN [err |-> "FieldNotFound", cond |-> NoCond, examined |-> 0]
  ELSE IF value.t = "lit"
  THEN [err |-> "none", cond |-> Compare(field, "eq", <<value.v>>), examined |-> 0]
  ELSE LET m == value.m
           i == FirstError(field, m)
       IN IF i # 0
          THEN [err |-> EntryError(field, m[i]), cond |-> NoCond, examined |-> i]
          ELSE [err |-> "none",
                cond |-> Combine([j \in DOMAIN m |-> EntryCond(field, m[j])]),
                examined |-> Len(m)]

\* ------------------------------------------------------------------ inputs
\* operator entries offered to the compiler
OpEntries ==
  {Op("exact", <<v>>) : v \in ColVals}
  \cup {Op(o, <<v>>) : o \in {"gt", "gte", "lt", "lte", "ne"}, v \in Vals}
  \cup {Op("in", <<1, 2>>), Op("not_in", <<1>>), Op("between", <<1, 2>>),
        Op("not_between", <<2, 2>>), Op("isnull", <<1>>), Op("isnotnull", <<1>>),
        Op("bogus", <<1>>)}

\* operator maps: at most MaxOps entries, the keys distinct
OpMaps ==
  UNION {{m \in [1..n -> OpEntries] :
            \A i, j \in 1..n : i # j => m[i].op # m[j].op} : n \in 0..MaxOps}

Values == {Lit(v) : v \in ColVals} \cup {Map(m) : m \in OpMaps}

\* mappings offered to the handlers as filters and as payloads
AgeRange == Map(<<Op("gte", <<1>>), Op("lte", <<2>>)>>)

Filters ==
  {<<>>, <<Entry("nosuch", Lit(1))>>, <<Entry("bind_crud", Lit(1))>>,
   <<Entry("age", AgeRange)>>, <<Entry("status", Lit(1))>>,
   <<Entry("age", Lit(1)), Entry("nosuch", Lit(1))>>}
  \cup {<<Entry("age", Lit(v))>> : v \in Vals}

Payloads ==
  {<<>>, <<Entry("status", Lit(1))>>, <<Entry("nosuch", Lit(1))>>,
   <<Entry("age", AgeRange)>>, <<Entry("age", AgeRange), Entry("status", AgeRange)>>}
  \cup {<<Entry("age", Lit(v))>> : v \in Vals}

\* ----------------------------------------------------------------- schemas
NoSchema == [bound |-> FALSE, order |-> <<>>, required |-> {}]
NoSchemas == [create |-> NoSchema, update |-> NoSchema, filter |-> NoSchema]
\* a validation-schema triple for User: integer fields, age required on create
UserSchemas ==
  [create |-> [bound |-> TRUE, order |-> <<"age", "status">>, required |-> {"age"}],
   update |-> [bound |-> TRUE, order |-> <<"age", "status">>, required |-> {}],
   filter |-> [bound |-> TRUE, order |-> <<"id", "age", "status">>, required |-> {}]]

\* a validation_schema argument of bind_crud: the name of the class, which of
\* the three sub-schemas it has, which of those are classes, and what they
\* validate; None is NoTriple
SubSchemas == {"CreateSchema", "UpdateSchema", "FilterSchema"}
Triple(name, present, types, sch) ==
  [given |-> TRUE, name |-> name, present |-> present, types |-> types, schemas |-> sch]
NoTriple == [given |-> FALSE, name |-> "", present |-> {}, types |-> {}, schemas |-> NoSchemas]

validation_schema_check_nameonly(vs) ==
  IF vs.name # "User" THEN "SchemaBindingError" ELSE "none"

\* BaseModel._validation_schema_check(validation_schema) for the class User
validation_schema_check(vs) ==
  IF vs.name # "User" THEN "SchemaBindingError"
  ELSE IF SubSchemas \ vs.present # {} THEN "SchemaBindingError"
  ELSE IF vs.present \ vs.types # {} THEN "SchemaBindingError"
  ELSE "none"

\* the attributes bind_crud assigns on the class
HandlerNames ==
  {"create", "update", "fetch", "find", "count", "delete", "update_fields", "destroy"}

\* BaseModel.bind_crud(validation_schema): the error raised, the handlers
\* assigned by the call, and the schemas the handlers then hold
bind_crud_call(vs) ==
  IF vs.given /\ validation_schema_check(vs) # "none"
  THEN [err |-> validation_schema_check(vs), assigned |-> {}, schemas |-> schemas]
  ELSE [err |-> "none", assigned |-> HandlerNames,
        schemas |-> IF vs.given THEN vs.schemas ELSE NoSchemas]

\* what the schema says of its field f in data: "missing", "invalid", "none"
ViolationAt(schema, data, f) ==
  IF f \notin Keys(data)
  THEN (IF f \in schema.required THEN "missing" ELSE "none")
  ELSE (IF Get(data, f).t = "map" THEN "invalid" ELSE "none")

IsViolation(e) == e.msg # "none"

\* e.errors(): every violation, in the order of the schema's fields
Violations(schema, data) ==
  SelectSeq([i \in DOMAIN schema.order |->
               [loc |-> schema.order[i], msg |-> ViolationAt(schema, data, schema.order[i])]],
            IsViolation)

\* model_dump(exclude_unset=True): the schema's fields that data sets
Dump(schema, data) ==
  LET IsSet(e) == e.key \in Keys(data) IN
  SelectSeq([i \in DOMAIN schema.order |->
               Entry(schema.order[i],
                     IF schema.order[i] \in Keys(data) THEN Get(data, schema.order[i]) ELSE Lit(Null))],
            IsSet)

validate_schema_always(schema, data) ==
  IF ~schema.bound
  THEN [ok |-> TRUE, data |-> data, errors |-> <<>>]
  ELSE IF Violations(schema, data) # <<>>
  THEN [ok |-> FALSE, data |-> <<>>, errors |-> Violations(schema, data)]
  ELSE [ok |-> TRUE, data |-> Dump(schema, data), errors |-> <<>>]

\* _validate_schema(schema_class, data)
validate_schema(schema, data) ==
  IF ~schema.bound \/ data = <<>>
  THEN [ok |-> TRUE, data |-> data, errors |-> <<>>]
  ELSE IF Violations(schema, data) # <<>>
  THEN [ok |-> FALSE, data |-> <<>>, errors |-> Violations(schema, data)]
  ELSE [ok |-> TRUE, data |-> Dump(schema, data), errors |-> <<>>]

\* ------------------------------------------------------ statement assembly
\* `stmt.where(column == value)` as the handlers write it, for one entry whose
\* key names an attribute: a column against a literal is an equality, a
\* column against a dict binds the dict as the parameter ("eq_dict"), an
\* attribute that is no column gives the Python constant False
handler_condition(e) ==
  IF e.key \notin DeclaredFields THEN Const(FALSE)
  ELSE IF e.val.t = "lit" THEN Cmp(e.key, "eq", <<e.val.v>>)
  ELSE Cmp(e.key, "eq_dict", <<>>)

KeyHasAttr(e) == HasAttr(e.key)

\* the loop `for key, value in validated_data.items(): if hasattr(...)` of
\* Find, Fetch, Count, Update and Delete: the WHERE clauses of the statement
handler_where(data) ==
  LET kept == SelectSeq(data, KeyHasAttr) IN
  [i \in DOMAIN kept |-> handler_condition(kept[i])]

\* a dict bound as a parameter of an integer column: the driver cannot adapt it
BadBind(conds) == \E i \in DOMAIN conds : conds[i].op = "eq_dict"
BadValue(data) == \E i \in DOMAIN data : data[i].key \in DeclaredFields /\ data[i].val.t = "map"

Selected(st, conds) == {r \in st : Matches(And(conds), r)}
Ids(rows) == {r.id : r \in rows}

Apply_nothing(r, data) == r

\* the columns a payload sets on a row (keys that are no column set none)
Apply(r, data) ==
  [f \in DOMAIN r |-> IF f \in Keys(data) THEN Get(data, f).v ELSE r[f]]

\* ------------------------------------------------------------ unit of work
Steps == {"execute", "commit", "refresh"}
EngineError(step) ==
  IF step = "execute" THEN "ExecuteError"
  ELSE IF step = "commit" THEN "CommitError" ELSE "RefreshError"

Out(st, nid, calls, err, errors, ret, rows, sel) ==
  [store |-> st, nextId |-> nid, calls |-> calls, err |-> err, errors |-> errors,
   ret |-> ret, rows |-> rows, sel |-> sel]

\* `raise` in the except clause: the exception in flight, as it is
Reraise(e) == e

Rollback_skipped(calls) == calls

\* `session.rollback()` in the except clause
Rollback(calls) == Append(calls, "rollback")

\* `except Exception: session.rollback(); raise`: nothing pending is kept
Failed(calls, e, errors) ==
  Out(store, nextId, Rollback(calls), Reraise(e), errors, Null, <<>>, {})

\* the same after a commit that went through: the rollback finds nothing to undo
FailedAfterCommit(st, nid, calls, e) ==
  Out(st, nid, Rollback(calls), Reraise(e), <<>>, Null, <<>>, {})

\* ---------------------------------------------------------------- handlers
Create_call_uncommitted(payload, fault) ==
  LET v == validate_schema(schemas.create, payload) IN
  IF ~v.ok THEN Failed(<<>>, "SchemaValidationError", v.errors)
  ELSE IF \E k \in Keys(v.data) : ~HasAttr(k) THEN Failed(<<>>, "TypeError", <<>>)
  ELSE IF fault = "commit" THEN Failed(<<"add", "commit">>, EngineError("commit"), <<>>)
  ELSE IF BadValue(v.data) THEN Failed(<<"add", "commit">>, "ProgrammingError", <<>>)
  ELSE IF fault = "refresh"
  THEN FailedAfterCommit(store, nextId + 1, <<"add", "commit", "refresh">>, EngineError("refresh"))
  ELSE Out(store, nextId + 1, <<"add", "commit", "refresh">>, "none", <<>>, nextId, <<>>, {nextId})

\* Create.__call__(payload)
Create_call(payload, fault) ==
  LET v == validate_schema(schemas.create, payload) IN
  IF ~v.ok THEN Failed(<<>>, "SchemaValidationError", v.errors)
  ELSE IF \E k \in Keys(v.data) : ~HasAttr(k) THEN Failed(<<>>, "TypeError", <<>>)
  ELSE IF fault = "commit" THEN Failed(<<"add", "commit">>, EngineError("commit"), <<>>)
  ELSE IF BadValue(v.data) THEN Failed(<<"add", "commit">>, "ProgrammingError", <<>>)
  ELSE LET new == Apply([id |-> nextId, age |-> Null, status |-> Null], v.data)
           st == store \cup {new}
       IN IF fault = "refresh"
          THEN FailedAfterCommit(st, nextId + 1, <<"add", "commit", "refresh">>, EngineError("refresh"))
          ELSE Out(st, nextId + 1, <<"add", "commit", "refresh">>, "none", <<>>, nextId, <<>>, {nextId})

\* Find.__call__(filter_data); pick is the row the engine returns first
Find_call(filter, fault, pick) ==
  LET v == validate_schema(schemas.filter, filter) IN
  IF ~v.ok THEN Failed(<<>>, "SchemaValidationError", v.errors)
  ELSE LET w == handler_where(v.data) IN
    IF fault = "execute" THEN Failed(<<"execute">>, EngineError("execute"), <<>>)
    ELSE IF BadBind(w) THEN Failed(<<"execute">>, "ProgrammingError", <<>>)
    ELSE Out(store, nextId, <<"execute">>, "none", <<>>,
             IF pick \in Ids(Selected(store, w)) THEN pick ELSE Null,
             <<>>, Ids(Selected(store, w)))

\* Count.__call__(filter_data)
Count_call(filter, fault) ==
  LET v == validate_schema(schemas.filter, filter) IN
  IF ~v.ok THEN Failed(<<>>, "SchemaValidationError", v.errors)
  ELSE LET w == handler_where(v.data) IN
    IF fault = "execute" THEN Failed(<<"execute">>, EngineError("execute"), <<>>)
    ELSE IF BadBind(w) THEN Failed(<<"execute">>, "ProgrammingError", <<>>)
    ELSE Out(store, nextId, <<"execute">>, "none", <<>>,
             Cardinality(Selected(store, w)), <<>>, Ids(Selected(store, w)))

Delete_call_nocommit(filter, fault) ==
  LET v == validate_schema(schemas.filter, filter) IN
  IF ~v.ok THEN Failed(<<>>, "SchemaValidationError", v.errors)
  ELSE LET w == handler_where(v.data)
           sel == Selected(store, w)
       IN
    IF fault = "execute" THEN Failed(<<"execute">>, EngineError("execute"), <<>>)
    ELSE IF BadBind(w) THEN Failed(<<"execute">>, "ProgrammingError", <<>>)
    ELSE Out(store, nextId, <<"execute">>, "none", <<>>, Cardinality(sel), <<>>, Ids(sel))

\* Delete.__call__(filter_data)
Delete_call(filter, fault) ==
  LET v == validate_schema(schemas.filter, filter) IN
  IF ~v.ok THEN Failed(<<>>, "SchemaValidationError", v.errors)
  ELSE LET w == handler_where(v.data)
           sel == Selected(store, w)
       IN
    IF fault = "execute" THEN Failed(<<"execute">>, EngineError("execute"), <<>>)
    ELSE IF BadBind(w) THEN Failed(<<"execute">>, "ProgrammingError", <<>>)
    ELSE IF fault = "commit" THEN Failed(<<"execute", "commit">>, EngineError("commit"), <<>>)
    ELSE Out(store \ sel, nextId, <<"execute", "commit">>, "none", <<>>,
             Cardinality(sel), <<>>, Ids(sel))

Update_call_unfiltered(filter, payload, fault) ==
  LET vf == validate_schema(schemas.filter, filter)
      vp == validate_schema(schemas.update, payload)
  IN
  IF ~vf.ok \/ ~vp.ok THEN Failed(<<>>, "SchemaValidationError", <<>>)
  ELSE IF fault # "none" THEN Failed(<<"execute">>, EngineError(fault), <<>>)
  ELSE IF vp.data = <<>> \/ Keys(vp.data) \ DeclaredFields # {} \/ BadValue(vp.data)
  THEN Failed(<<"execute">>, "CompileError", <<>>)
  ELSE Out({Apply(r, vp.data) : r \in store}, nextId, <<"execute", "commit">>, "none", <<>>,
           Cardinality(store), <<>>, Ids(store))

\* Update.__call__(filter_data, payload): a payload that sets nothing, names
\* no column or binds a dict makes the statement fail when it is executed
Update_call(filter, payload, fault) ==
  LET vf == validate_schema(schemas.filter, filter) IN
  IF ~vf.ok THEN Failed(<<>>, "SchemaValidationError", vf.errors)
  ELSE LET vp == validate_schema(schemas.update, payload) IN
  IF ~vp.ok THEN Failed(<<>>, "SchemaValidationError", vp.errors)
  ELSE LET w == handler_where(vf.data)
           sel == Selected(store, w)
       IN
    IF fault = "execute" THEN Failed(<<"execute">>, EngineError("execute"), <<>>)
    ELSE IF vp.data = <<>> \/ Keys(vp.data) \ DeclaredFields # {}
    THEN Failed(<<"execute">>, "CompileError", <<>>)
    ELSE IF BadBind(w) \/ BadValue(vp.data) THEN Failed(<<"execute">>, "ProgrammingError", <<>>)
    ELSE IF fault = "commit" THEN Failed(<<"execute", "commit">>, EngineError("commit"), <<>>)
    ELSE Out((store \ sel) \cup {Apply(r, vp.data) : r \in sel}, nextId,
             <<"execute", "commit">>, "none", <<>>, Cardinality(sel), <<>>, Ids(sel))

update_fields_call_refreshfirst(inst, payload, fault) ==
  LET set == SelectSeq(payload, KeyHasAttr) IN
  IF fault = "commit" THEN Failed(<<"add", "commit">>, EngineError("commit"), <<>>)
  ELSE IF BadValue(set) THEN Failed(<<"add", "commit">>, "ProgrammingError", <<>>)
  ELSE LET st == (store \ {inst}) \cup {Apply(inst, set)} IN
    IF fault = "refresh"
    THEN FailedAfterCommit(store, nextId, <<"add", "refresh">>, EngineError("refresh"))
    ELSE Out(st, nextId, <<"add", "refresh", "commit">>, "none", <<>>, inst.id, <<>>, {inst.id})

update_fields_call_overwrite(inst, payload, fault) ==
  LET set == SelectSeq(payload, KeyHasAttr) IN
  IF fault = "commit" THEN Failed(<<"add", "commit">>, EngineError("commit"), <<>>)
  ELSE IF BadValue(set) THEN Failed(<<"add", "commit">>, "ProgrammingError", <<>>)
  ELSE LET st == (store \ {inst}) \cup {Apply([id |-> inst.id, age |-> Null, status |-> Null], set)} IN
    IF fault = "refresh"
    THEN FailedAfterCommit(st, nextId, <<"add", "commit", "refresh">>, EngineError("refresh"))
    ELSE Out(st, nextId, <<"add", "commit", "refresh">>, "none", <<>>, inst.id, <<>>, {inst.id})

\* BaseModel._update_fields_func_(self, payload), self being the row inst
update_fields_call(inst, payload, fault) ==
  LET set == SelectSeq(payload, KeyHasAttr) IN
  IF fault = "commit" THEN Failed(<<"add", "commit">>, EngineError("commit"), <<>>)
  ELSE IF BadValue(set) THEN Failed(<<"add", "commit">>, "ProgrammingError", <<>>)
  ELSE LET st == (store \ {inst}) \cup {Apply(inst, set)} IN
    IF fault = "refresh"
    THEN FailedAfterCommit(st, nextId, <<"add", "commit", "refresh">>, EngineError("refresh"))
    ELSE Out(st, nextId, <<"add", "commit", "refresh">>, "none", <<>>, inst.id, <<>>, {inst.id})

\* BaseModel._destroy_func_(self)
destroy_call(inst, fault) ==
  IF fault = "commit" THEN Failed(<<"delete", "commit">>, EngineError("commit"), <<>>)
  ELSE Out(store \ {inst}, nextId, <<"delete", "commit">>, "none", <<>>, Null, <<>>, {inst.id})

\* ------------------------------------------------------------------- Fetch
\* an order_by entry: "-name" is [name |-> name, desc |-> TRUE]
OrderField(name, desc) == [name |-> name, desc |-> desc]
Top == MaxId + 3
\* the position of a column value in the engine's sort order; the engine
\* decides whether NULL sorts before or after every value
Rank(x, nullsLast) == IF x = Null /\ nullsLast THEN Top ELSE x

order_clauses_unordered(order_by) ==
  LET IsColumn(o) == o.name \in DeclaredFields IN SelectSeq(order_by, IsColumn)

order_clauses_defaulted(order_by) ==
  LET IsColumn(o) == o.name \in DeclaredFields IN
  IF SelectSeq(order_by, IsColumn) # <<>> THEN SelectSeq(order_by, IsColumn)
  ELSE <<OrderField("id", FALSE)>>

\* the ORDER BY clauses of the statement: the recognized columns of order_by in
\* their order, or the first primary-key column when order_by is empty
order_clauses(order_by) ==
  IF order_by # <<>>
  THEN LET IsColumn(o) == o.name \in DeclaredFields IN SelectSeq(order_by, IsColumn)
  ELSE <<OrderField("id", FALSE)>>

\* r1 sorts strictly before r2 under the clauses ks
Before(r1, r2, ks, nullsLast) ==
  \E i \in DOMAIN ks :
    /\ \A j \in 1..(i - 1) : r1[ks[j].name] = r2[ks[j].name]
    /\ IF ks[i].desc
       THEN Rank(r1[ks[i].name], nullsLast) > Rank(r2[ks[i].name], nullsLast)
       ELSE Rank(r1[ks[i].name], nullsLast) < Rank(r2[ks[i].name], nullsLast)

Perms(S) ==
  {p \in [1..Cardinality(S) -> S] : \A i, j \in DOMAIN p : i # j => p[i] # p[j]}

\* the sequences in which the engine may return the rows S under ks
Orderings(S, ks, nullsLast) ==
  {p \in Perms(S) : \A i, j \in DOMAIN p : i < j => ~Before(p[j], p[i], ks, nullsLast)}

Min(a, b) == IF a < b THEN a ELSE b
Truthy(n) == n # Null /\ n # 0

\* OFFSET and LIMIT, each applied only when `if offset:` / `if limit:` holds
Page(rows, limit, offset) ==
  LET from == IF Truthy(offset) THEN offset ELSE 0
      upto == IF Truthy(limit) THEN Min(Len(rows), from + limit) ELSE Len(rows)
  IN SubSeq(rows, from + 1, upto)

IdsOf(rows) == [i \in DOMAIN rows |-> rows[i].id]

\* Fetch._primary_key_column after a call: _get_primary_key_column stores the
\* first primary-key column on the handler the first time _build_query
\* reaches the default ordering, that is when the session is accepted, the
\* filter passes its schema and order_by is empty
get_primary_key_column(session, filter, order_by) ==
  IF session = "Session" THEN primary_key_column
  ELSE IF ~validate_schema(schemas.filter, filter).ok THEN primary_key_column
  ELSE IF order_by # <<>> THEN primary_key_column
  ELSE "id"

\* Fetch.__call__(filter_data, limit, offset, order_by); rows is the sequence
\* in which the engine returns the selected rows
Fetch_call(filter, limit, offset, order_by, fault, rows) ==
  LET v == validate_schema(schemas.filter, filter) IN
  IF ~v.ok THEN Failed(<<>>, "SchemaValidationError", v.errors)
  ELSE IF \E i \in DOMAIN order_by : order_by[i].name \in ClassAttrs
  THEN Failed(<<>>, "AttributeError", <<>>)
  ELSE LET w == handler_where(v.data) IN
    IF fault = "execute" THEN Failed(<<"execute">>, EngineError("execute"), <<>>)
    ELSE IF BadBind(w) THEN Failed(<<"execute">>, "ProgrammingError", <<>>)
    ELSE Out(store, nextId, <<"execute">>, "none", <<>>, Null,
             IdsOf(Page(rows, limit, offset)), Ids(Selected(store, w)))

\* ------------------------------------------------------------ QueryBuilder
Operations == {"AND", "OR", "NOT_ALL", "NOT_ANY"}

combine_group(parsed, operation) ==
  IF operation = "AND" THEN And(parsed)
  ELSE IF operation = "OR" THEN Or(parsed)
  ELSE IF operation = "NOT_ALL" THEN Not(And(parsed))
  ELSE Not(Or(parsed))

where_call_flat(groups, conditions, operation) ==
  LET parsed == [i \in DOMAIN conditions |->
                   parse_condition(conditions[i].key, conditions[i].val)]
      bad == {i \in DOMAIN parsed : parsed[i].err # "none"}
  IN
  IF conditions = <<>> THEN [err |-> "none", groups |-> groups]
  ELSE IF bad # {}
  THEN [err |-> parsed[CHOOSE i \in bad : \A j \in bad : i <= j].err, groups |-> groups]
  ELSE IF operation \notin {"AND", "OR", "NOT_ALL", "NOT_ANY"}
  THEN [err |-> "UnsupportedOperation", groups |-> groups]
  ELSE [err |-> "none",
        groups |-> Append(groups, And([i \in DOMAIN parsed |-> parsed[i].cond]))]

where_call_partial(groups, conditions, operation) ==
  LET parsed == [i \in DOMAIN conditions |->
                   parse_condition(conditions[i].key, conditions[i].val)]
      bad == {i \in DOMAIN parsed : parsed[i].err # "none"}
      first == CHOOSE i \in bad : \A j \in bad : i <= j
  IN
  IF conditions = <<>> THEN [err |-> "none", groups |-> groups]
  ELSE IF bad # {}
  THEN [err |-> parsed[first].err,
        groups |-> IF first = 1 THEN groups
                   ELSE Append(groups, And([i \in 1..(first - 1) |-> parsed[i].cond]))]
  ELSE IF operation \notin {"AND", "OR", "NOT_ALL", "NOT_ANY"}
  THEN [err |-> "UnsupportedOperation", groups |-> groups]
  ELSE [err |-> "none",
        groups |-> Append(groups, combine_group([i \in DOMAIN parsed |-> parsed[i].cond], operation))]

\* QueryBuilder.where(conditions, operation) on the builder with the groups
\* `groups`: the error raised ("none" if none) and the groups afterwards
where_call(groups, conditions, operation) ==
  LET parsed == [i \in DOMAIN conditions |->
                   parse_condition(conditions[i].key, conditions[i].val)]
      bad == {i \in DOMAIN parsed : parsed[i].err # "none"}
  IN
  IF conditions = <<>> THEN [err |-> "none", groups |-> groups]
  ELSE IF bad # {}
  THEN [err |-> parsed[CHOOSE i \in bad : \A j \in bad : i <= j].err, groups |-> groups]
  ELSE IF operation \notin Operations
  THEN [err |-> "UnsupportedOperation", groups |-> groups]
  ELSE [err |-> "none",
        groups |-> Append(groups, combine_group([i \in DOMAIN parsed |-> parsed[i].cond], operation))]

\* Run.__call__(): build_sqlalchemy_query chains one .where per group
Run_call(groups, fault, rows) ==
  IF fault = "execute" THEN Failed(<<"execute">>, EngineError("execute"), <<>>)
  ELSE Out(store, nextId, <<"execute">>, "none", <<>>, Null, IdsOf(rows), Ids(Selected(store, groups)))

\* ------------------------------------------------------ suspending variants
\* the session argument of async_: an AsyncSession, or some other object
AsyncSessions == {"AsyncSession", "Session"}

Rejected_rollback == Out(store, nextId, <<"rollback">>, "TypeError", <<>>, Null, <<>>, {})

\* `if not isinstance(session, AsyncSession): raise TypeError(...)`, before
\* the try block: no session call is made
Rejected == Out(store, nextId, <<>>, "TypeError", <<>>, Null, <<>>, {})

\* `except Exception: await session.rollback(); raise`
Failed_async(calls, e, errors) ==
  Out(store, nextId, Append(calls, "rollback"), e, errors, Null, <<>>, {})

\* Create.async_(session, payload)
Create_async(session, payload, fault) ==
  IF session # "AsyncSession" THEN Rejected
  ELSE LET v == validate_schema(schemas.create, payload) IN
  IF ~v.ok THEN Failed_async(<<>>, "SchemaValidationError", v.errors)
  ELSE IF \E k \in Keys(v.data) : ~HasAttr(k) THEN Failed_async(<<>>, "TypeError", <<>>)
  ELSE IF fault = "commit" THEN Failed_async(<<"add", "commit">>, EngineError("commit"), <<>>)
  ELSE IF BadValue(v.data) THEN Failed_async(<<"add", "commit">>, "ProgrammingError", <<>>)
  ELSE LET new == Apply([id |-> nextId, age |-> Null, status |-> Null], v.data)
           st == store \cup {new}
       IN IF fault = "refresh"
          THEN Out(st, nextId + 1, <<"add", "commit", "refresh", "rollback">>,
                   EngineError("refresh"), <<>>, Null, <<>>, {})
          ELSE Out(st, nextId + 1, <<"add", "commit", "refresh">>, "none", <<>>, nextId, <<>>, {nextId})

\* Find.async_(session, filter_data)
Find_async(session, filter, fault, pick) ==
  IF session # "AsyncSession" THEN Rejected
  ELSE LET v == validate_schema(schemas.filter, filter) IN
  IF ~v.ok THEN Failed_async(<<>>, "SchemaValidationError", v.errors)
  ELSE LET w == handler_where(v.data) IN
    IF fault = "execute" THEN Failed_async(<<"execute">>, EngineError("execute"), <<>>)
    ELSE IF BadBind(w) THEN Failed_async(<<"execute">>, "ProgrammingError", <<>>)
    ELSE Out(store, nextId, <<"execute">>, "none", <<>>,
             IF pick \in Ids(Selected(store, w)) THEN pick ELSE Null,
             <<>>, Ids(Selected(store, w)))

\* Count.async_(session, filter_data)
Count_async(session, filter, fault) ==
  IF session # "AsyncSession" THEN Rejected
  ELSE LET v == validate_schema(schemas.filter, filter) IN
  IF ~v.ok THEN Failed_async(<<>>, "SchemaValidationError", v.errors)
  ELSE LET w == handler_where(v.data) IN
    IF fault = "execute" THEN Failed_async(<<"execute">>, EngineError("execute"), <<>>)
    ELSE IF BadBind(w) THEN Failed_async(<<"execute">>, "ProgrammingError", <<>>)
    ELSE Out(store, nextId, <<"execute">>, "none", <<>>,
             Cardinality(Selected(store, w)), <<>>, Ids(Selected(store, w)))

\* Delete.async_(session, filter_data)
Delete_async(session, filter, fault) ==
  IF session # "AsyncSession" THEN Rejected
  ELSE LET v == validate_schema(schemas.filter, filter) IN
  IF ~v.ok THEN Failed_async(<<>>, "SchemaValidationError", v.errors)
  ELSE LET w == handler_where(v.data)
           sel == Selected(store, w)
       IN
    IF fault = "execute" THEN Failed_async(<<"execute">>, EngineError("execute"), <<>>)
    ELSE IF BadBind(w) THEN Failed_async(<<"execute">>, "ProgrammingError", <<>>)
    ELSE IF fault = "commit" THEN Failed_async(<<"execute", "commit">>, EngineError("commit"), <<>>)
    ELSE Out(store \ sel, nextId, <<"execute", "commit">>, "none", <<>>,
             Cardinality(sel), <<>>, Ids(sel))

Update_async_nocommit(session, filter, payload, fault) ==
  IF session # "AsyncSession" THEN Rejected
  ELSE LET o == Update_call(filter, payload, fault) IN
    IF o.err = "none" THEN [o EXCEPT !.calls = <<"execute">>, !.store = store] ELSE o

\* Update.async_(session, filter_data, payload)
Update_async(session, filter, payload, fault) ==
  IF session # "AsyncSession" THEN Rejected
  ELSE LET vf == validate_schema(schemas.filter, filter) IN
  IF ~vf.ok THEN Failed_async(<<>>, "SchemaValidationError", vf.errors)
  ELSE LET vp == validate_schema(schemas.update, payload) IN
  IF ~vp.ok THEN Failed_async(<<>>, "SchemaValidationError", vp.errors)
  ELSE LET w == handler_where(vf.data)
           sel == Selected(store, w)
       IN
    IF fault = "execute" THEN Failed_async(<<"execute">>, EngineError("execute"), <<>>)
    ELSE IF vp.data = <<>> \/ Keys(vp.data) \ DeclaredFields # {}
    THEN Failed_async(<<"execute">>, "CompileError", <<>>)
    ELSE IF BadBind(w) \/ BadValue(vp.data) THEN Failed_async(<<"execute">>, "ProgrammingError", <<>>)
    ELSE IF fault = "commit" THEN Failed_async(<<"execute", "commit">>, EngineError("commit"), <<>>)
    ELSE Out((store \ sel) \cup {Apply(r, vp.data) : r \in sel}, nextId,
             <<"execute", "commit">>, "none", <<>>, Cardinality(sel), <<>>, Ids(sel))

\* Fetch.async_(session, filter_data, limit, offset, order_by)
Fetch_async(session, filter, limit, offset, order_by, fault, rows) ==
  IF session # "AsyncSession" THEN Rejected
  ELSE LET v == validate_schema(schemas.filter, filter) IN
  IF ~v.ok THEN Failed_async(<<>>, "SchemaValidationError", v.errors)
  ELSE IF \E i \in DOMAIN order_by : order_by[i].name \in ClassAttrs
  THEN Failed_async(<<>>, "AttributeError", <<>>)
  ELSE LET w == handler_where(v.data) IN
    IF fault = "execute" THEN Failed_async(<<"execute">>, EngineError("execute"), <<>>)
    ELSE IF BadBind(w) THEN Failed_async(<<"execute">>, "ProgrammingError", <<>>)
    ELSE Out(store, nextId, <<"execute">>, "none", <<>>, Null,
             IdsOf(Page(rows, limit, offset)), Ids(Selected(store, w)))

\* Run.async_(session)
Run_async(session, groups, fault, rows) ==
  IF session # "AsyncSession" THEN Rejected
  ELSE IF fault = "execute" THEN Failed_async(<<"execute">>, EngineError("execute"), <<>>)
  ELSE Out(store, nextId, <<"execute">>, "none", <<>>, Null, IdsOf(rows), Ids(Selected(store, groups)))

\* ----------------------------------------------------------- state machine
\* what the last call was given and what it did: the unit-of-work calls it
\* made in order, the error it raised, its result, the rows its statement
\* selected (sel) and the committed store before it (pre)
Call(op, filter, payload, tag, inst, fault, page, out) ==
  [op |-> op, filter |-> filter, payload |-> payload, tag |-> tag, inst |-> inst,
   fault |-> fault, page |-> page, calls |-> out.calls, err |-> out.err,
   errors |-> out.errors, ret |-> out.ret, rows |-> out.rows, sel |-> out.sel,
   pre |-> store, variant |-> "sync", session |-> "scoped", vs |-> NoTriple, assigned |-> {}, preBound |-> bound,
   preSchemas |-> schemas, preGroups |-> qb, preCommitted |-> committed]

NoPage == [limit |-> Null, offset |-> Null, order |-> <<>>]
NoOut == Out({}, 1, <<>>, "none", <<>>, Null, <<>>, {})
\* no call is in progress: the caller is between two calls
NoCall ==
  [op |-> "idle", filter |-> <<>>, payload |-> <<>>, tag |-> "", inst |-> Null,
   fault |-> "none", page |-> NoPage, calls |-> <<>>, err |-> "none",
   errors |-> <<>>, ret |-> Null, rows |-> <<>>, sel |-> {}, pre |-> {},
   variant |-> "sync", session |-> "scoped", vs |-> NoTriple, assigned |-> {}, preBound |-> {}, preSchemas |-> NoSchemas,
   preGroups |-> <<>>, preCommitted |-> {}]
Idle == last.op = "idle"
\* a query chain Model.query.where(..)...run() is one expression of the
\* caller: the handlers are called outside of it, when no builder is in use
Free == Idle /\ qb = <<>>

Init ==
  /\ store = {}
  /\ committed = {}
  /\ nextId = 1
  /\ schemas = NoSchemas
  /\ bound = {}
  /\ primary_key_column = "None"
  /\ qb = <<>>
  /\ last = NoCall
  /\ pc = [field |-> "id", value |-> Lit(1), done |-> TRUE, out |-> parse_condition("id", Lit(1))]

\* the commit of the call went through: another step follows it
Committed(calls) ==
  \E i \in DOMAIN calls : calls[i] = "commit" /\ i < Len(calls) /\ calls[i + 1] # "rollback"
CommittedLast(calls) == calls # <<>> /\ calls[Len(calls)] = "commit"

after_call_own(out, view, db) ==
  IF Committed(out.calls) \/ CommittedLast(out.calls)
  THEN [store |-> out.store, committed |-> out.store]
  ELSE [store |-> view, committed |-> db]

\* what the session holds (store, the rows as its transaction sees them) and
\* what the database holds (committed) after a call: session.commit() makes
\* everything the session holds durable, session.rollback() discards
\* everything in it that is not, and a call that does neither leaves both
after_call(out, view, db) ==
  IF Committed(out.calls) \/ CommittedLast(out.calls)
  THEN [store |-> out.store, committed |-> out.store]
  ELSE IF "rollback" \in Elems(out.calls)
  THEN [store |-> db, committed |-> db]
  ELSE [store |-> view, committed |-> db]

Effect(call, out) ==
  /\ store' = after_call(out, store, committed).store
  /\ committed' = after_call(out, store, committed).committed
  /\ nextId' = out.nextId
  /\ last' = call

\* BaseModel.bind_crud(validation_schema)
Triples ==
  {NoTriple,
   Triple("User", SubSchemas, SubSchemas, UserSchemas),
   Triple("Account", SubSchemas, SubSchemas, UserSchemas),
   Triple("Account", {}, {}, UserSchemas)}
  \cup {Triple("User", SubSchemas \ {m}, SubSchemas \ {m}, UserSchemas) : m \in SubSchemas}
  \cup {Triple("User", SubSchemas, SubSchemas \ {m}, UserSchemas) : m \in SubSchemas}

BindCrud ==
  \E vs \in Triples :
    /\ Free
    /\ LET b == bind_crud_call(vs) IN
       /\ schemas' = b.schemas
       /\ bound' = bound \cup b.assigned
       /\ primary_key_column' = (IF b.err = "none" THEN "None" ELSE primary_key_column)
       /\ last' = [Call("bind_crud", <<>>, <<>>, "", Null, "none", NoPage, NoOut)
                     EXCEPT !.vs = vs, !.err = b.err, !.assigned = b.assigned]
    /\ UNCHANGED <<store, committed, nextId, qb, pc>>

Create ==
  \E payload \in Payloads, fault \in {"none", "commit", "refresh"} :
    /\ Free
    /\ "create" \in bound
    /\ nextId <= MaxId
    /\ LET out == Create_call(payload, fault) IN
       Effect(Call("create", <<>>, payload, "", Null, fault, NoPage, out), out)
    /\ UNCHANGED <<schemas, bound, primary_key_column, qb, pc>>

Find ==
  \E filter \in Filters, fault \in {"none", "execute"}, pick \in Ids(store) \cup {Null} :
    /\ Free
    /\ "find" \in bound
    /\ LET out == Find_call(filter, fault, pick) IN
       /\ (out.err = "none" /\ out.sel # {}) => out.ret # Null
       /\ (out.err # "none" \/ out.sel = {}) => pick = Null
       /\ Effect(Call("find", filter, <<>>, "", Null, fault, NoPage, out), out)
    /\ UNCHANGED <<schemas, bound, primary_key_column, qb, pc>>

Count ==
  \E filter \in Filters, fault \in {"none", "execute"} :
    /\ Free
    /\ "count" \in bound
    /\ LET out == Count_call(filter, fault) IN
       Effect(Call("count", filter, <<>>, "", Null, fault, NoPage, out), out)
    /\ UNCHANGED <<schemas, bound, primary_key_column, qb, pc>>

Update ==
  \E filter \in Filters, payload \in Payloads, fault \in {"none", "execute", "commit"} :
    /\ Free
    /\ "update" \in bound
    /\ fault # "none" => payload = <<Entry("status", Lit(1))>>
    /\ LET out == Update_call(filter, payload, fault) IN
       Effect(Call("update", filter, payload, "", Null, fault, NoPage, out), out)
    /\ UNCHANGED <<schemas, bound, primary_key_column, qb, pc>>

Delete ==
  \E filter \in Filters, fault \in {"none", "execute", "commit"} :
    /\ Free
    /\ "delete" \in bound
    /\ LET out == Delete_call(filter, fault) IN
       Effect(Call("delete", filter, <<>>, "", Null, fault, NoPage, out), out)
    /\ UNCHANGED <<schemas, bound, primary_key_column, qb, pc>>

\* the payloads given to update_fields: those above, and one that mixes a
\* column with a name the instance does not have
FieldPayloads == Payloads \cup {<<Entry("nosuch", Lit(1)), Entry("status", Lit(1))>>}

UpdateFields ==
  \E inst \in store, payload \in FieldPayloads, fault \in {"none", "commit", "refresh"} :
    /\ Free
    /\ "update_fields" \in bound
    /\ LET out == update_fields_call(inst, payload, fault) IN
       Effect(Call("update_fields", <<>>, payload, "", inst.id, fault, NoPage, out), out)
    /\ UNCHANGED <<schemas, bound, primary_key_column, qb, pc>>

Destroy ==
  \E inst \in store, fault \in {"none", "commit"} :
    /\ Free
    /\ "destroy" \in bound
    /\ LET out == destroy_call(inst, fault) IN
       Effect(Call("destroy", <<>>, <<>>, "", inst.id, fault, NoPage, out), out)
    /\ UNCHANGED <<schemas, bound, primary_key_column, qb, pc>>

\* the arguments Fetch is called with
FetchFilters == {<<>>, <<Entry("age", Lit(1))>>, <<Entry("nosuch", Lit(1))>>, <<Entry("age", AgeRange)>>}
Pages ==
  {NoPage,
   [limit |-> 1, offset |-> Null, order |-> <<>>],
   [limit |-> 1, offset |-> 1, order |-> <<>>],
   [limit |-> 0, offset |-> 0, order |-> <<>>],
   [limit |-> Null, offset |-> Null, order |-> <<OrderField("age", TRUE)>>],
   [limit |-> Null, offset |-> Null, order |-> <<OrderField("nosuch", FALSE)>>],
   [limit |-> Null, offset |-> Null, order |-> <<OrderField("bind_crud", FALSE)>>],
   [limit |-> Null, offset |-> Null, order |-> <<OrderField("status", FALSE), OrderField("id", TRUE)>>]}

Fetch ==
  \E filter \in FetchFilters, page \in Pages, fault \in {"none", "execute"}, nullsLast \in BOOLEAN :
    /\ Free
    /\ "fetch" \in bound
    /\ LET w == handler_where(validate_schema(schemas.filter, filter).data)
           sel == IF BadBind(w) THEN {} ELSE Selected(store, w)
       IN \E rows \in Orderings(sel, order_clauses(page.order), nullsLast) :
         /\ LET out == Fetch_call(filter, page.limit, page.offset, page.order, fault, rows) IN
            /\ out.err # "none" => (rows = CHOOSE p \in Orderings(sel, order_clauses(page.order), nullsLast) : TRUE)
            /\ Effect(Call("fetch", filter, <<>>, "", Null, fault, page, out), out)
         /\ primary_key_column' = get_primary_key_column("scoped", filter, page.order)
         /\ UNCHANGED <<schemas, bound, qb, pc>>

\* QueryDescriptor.__get__: every access to Model.query is a new builder
QueryGet ==
  /\ Idle
  /\ qb' = <<>>
  /\ last' = Call("query", <<>>, <<>>, "", Null, "none", NoPage, NoOut)
  /\ UNCHANGED <<store, committed, nextId, schemas, bound, primary_key_column, pc>>

WhereConditions ==
  {<<>>, <<Entry("age", AgeRange)>>, <<Entry("nosuch", Lit(1))>>,
   <<Entry("age", Map(<<Op("bogus", <<1>>)>>))>>}

Where ==
  \E conditions \in WhereConditions, operation \in {"AND", "XOR"} :
    /\ Idle
    /\ Len(qb) < MaxGroups
    /\ LET w == where_call(qb, conditions, operation) IN
       /\ qb' = w.groups
       /\ last' = Call("where", conditions, <<>>, operation, Null, "none", NoPage,
                       Out(store, nextId, <<>>, w.err, <<>>, Null, <<>>, {}))
    /\ UNCHANGED <<store, committed, nextId, schemas, bound, primary_key_column, pc>>

Run ==
  \E fault \in {"none", "execute"} :
    \E rows \in Perms(Selected(store, qb)) :
      /\ Idle
      /\ LET out == Run_call(qb, fault, rows) IN
         /\ out.err # "none" => (rows = CHOOSE p \in Perms(Selected(store, qb)) : TRUE)
         /\ Effect(Call("run", <<>>, <<>>, "", Null, fault, NoPage, out), out)
      /\ UNCHANGED <<schemas, bound, primary_key_column, qb, pc>>

\* the suspending variants, awaited to completion by the caller
AsyncCall(call, session) == [call EXCEPT !.variant = "async", !.session = session]
AsyncFilters ==
  {<<>>, <<Entry("age", Lit(1))>>, <<Entry("nosuch", Lit(1))>>, <<Entry("age", AgeRange)>>}
AsyncPayloads == {<<>>, <<Entry("status", Lit(1))>>, <<Entry("age", AgeRange)>>}

CreateAsync ==
  \E session \in AsyncSessions, payload \in AsyncPayloads, fault \in {"none", "commit", "refresh"} :
    /\ Free
    /\ "create" \in bound
    /\ nextId <= MaxId
    /\ session = "Session" => fault = "none"
    /\ LET out == Create_async(session, payload, fault) IN
       Effect(AsyncCall(Call("create", <<>>, payload, "", Null, fault, NoPage, out), session), out)
    /\ UNCHANGED <<schemas, bound, primary_key_column, qb, pc>>

FindAsync ==
  \E session \in AsyncSessions, filter \in AsyncFilters, fault \in {"none", "execute"},
     pick \in Ids(store) \cup {Null} :
    /\ Free
    /\ "find" \in bound
    /\ session = "Session" => fault = "none"
    /\ LET out == Find_async(session, filter, fault, pick) IN
       /\ (out.err = "none" /\ out.sel # {}) => out.ret # Null
       /\ (out.err # "none" \/ out.sel = {}) => pick = Null
       /\ Effect(AsyncCall(Call("find", filter, <<>>, "", Null, fault, NoPage, out), session), out)
    /\ UNCHANGED <<schemas, bound, primary_key_column, qb, pc>>

CountAsync ==
  \E session \in AsyncSessions, filter \in AsyncFilters, fault \in {"none", "execute"} :
    /\ Free
    /\ "count" \in bound
    /\ session = "Session" => fault = "none"
    /\ LET out == Count_async(session, filter, fault) IN
       Effect(AsyncCall(Call("count", filter, <<>>, "", Null, fault, NoPage, out), session), out)
    /\ UNCHANGED <<schemas, bound, primary_key_column, qb, pc>>

UpdateAsync ==
  \E session \in AsyncSessions, filter \in AsyncFilters, payload \in AsyncPayloads,
     fault \in {"none", "execute", "commit"} :
    /\ Free
    /\ "update" \in bound
    /\ session = "Session" => fault = "none"
    /\ fault # "none" => payload = <<Entry("status", Lit(1))>>
    /\ LET out == Update_async(session, filter, payload, fault) IN
       Effect(AsyncCall(Call("update", filter, payload, "", Null, fault, NoPage, out), session), out)
    /\ UNCHANGED <<schemas, bound, primary_key_column, qb, pc>>

DeleteAsync ==
  \E session \in AsyncSessions, filter \in AsyncFilters, fault \in {"none", "execute", "commit"} :
    /\ Free
    /\ "delete" \in bound
    /\ session = "Session" => fault = "none"
    /\ LET out == Delete_async(session, filter, fault) IN
       Effect(AsyncCall(Call("delete", filter, <<>>, "", Null, fault, NoPage, out), session), out)
    /\ UNCHANGED <<schemas, bound, primary_key_column, qb, pc>>

AsyncPages ==
  {NoPage, [limit |-> 1, offset |-> 1, order |-> <<>>],
   [limit |-> Null, offset |-> Null, order |-> <<OrderField("age", TRUE)>>]}

FetchAsync ==
  \E session \in AsyncSessions, filter \in AsyncFilters, page \in AsyncPages,
     fault \in {"none", "execute"}, nullsLast \in BOOLEAN :
    /\ Free
    /\ "fetch" \in bound
    /\ session = "Session" => fault = "none"
    /\ LET w == handler_where(validate_schema(schemas.filter, filter).data)
           sel == IF BadBind(w) THEN {} ELSE Selected(store, w)
       IN \E rows \in Orderings(sel, order_clauses(page.order), nullsLast) :
         /\ LET out == Fetch_async(session, filter, page.limit, page.offset, page.order, fault, rows) IN
            /\ out.err # "none" => (rows = CHOOSE p \in Orderings(sel, order_clauses(page.order), nullsLast) : TRUE)
            /\ Effect(AsyncCall(Call("fetch", filter, <<>>, "", Null, fault, page, out), session), out)
         /\ primary_key_column' = get_primary_key_column(session, filter, page.order)
         /\ UNCHANGED <<schemas, bound, qb, pc>>

RunAsync ==
  \E session \in AsyncSessions, fault \in {"none", "execute"} :
    \E rows \in Perms(Selected(store, qb)) :
      /\ Idle
      /\ session = "Session" => fault = "none"
      /\ LET out == Run_async(session, qb, fault, rows) IN
         /\ out.err # "none" => (rows = CHOOSE p \in Perms(Selected(store, qb)) : TRUE)
         /\ Effect(AsyncCall(Call("run", <<>>, <<>>, "", Null, fault, NoPage, out), session), out)
      /\ UNCHANGED <<schemas, bound, primary_key_column, qb, pc>>

\* the call returns: the caller takes the result or the error, and the
\* record of the call is dropped before the next call
Return ==
  /\ ~Idle
  /\ last' = NoCall
  /\ UNCHANGED <<store, committed, nextId, schemas, bound, primary_key_column, qb, pc>>

Next ==
  \/ BindCrud
  \/ Create
  \/ Find
  \/ Fetch
  \/ Count
  \/ Update
  \/ Delete
  \/ UpdateFields
  \/ Destroy
  \/ QueryGet
  \/ Where
  \/ Run
  \/ CreateAsync
  \/ FindAsync
  \/ FetchAsync
  \/ CountAsync
  \/ UpdateAsync
  \/ DeleteAsync
  \/ RunAsync
  \/ Return

Spec == Init /\ [][Next]_vars

\* the condition compiler alone: a field name and a value are given, and
\* parse_condition is applied to them
NotParsed == [err |-> "pending", cond |-> NoCond, examined |-> 0]

InitCompile ==
  /\ store = {}
  /\ committed = {}
  /\ nextId = 1
  /\ schemas = NoSchemas
  /\ bound = {}
  /\ primary_key_column = "None"
  /\ qb = <<>>
  /\ last = NoCall
  /\ \E field \in Names, value \in Values :
       pc = [field |-> field, value |-> value, done |-> FALSE, out |-> NotParsed]

ParseCondition ==
  /\ ~pc.done
  /\ pc' = [pc EXCEPT !.done = TRUE, !.out = parse_condition(pc.field, pc.value)]
  /\ UNCHANGED <<store, committed, nextId, schemas, bound, primary_key_column, qb, last>>

NextCompile == ParseCondition

SpecCompile == InitCompile /\ [][NextCompile]_vars

\* the QueryBuilder alone, over a table that holds some records: where is
\* given mappings over one and two fields under every operation tag
QueryStores ==
  {{},
   {[id |-> 1, age |-> 1, status |-> 2]},
   {[id |-> 1, age |-> 2, status |-> 1], [id |-> 2, age |-> Null, status |-> Null]}}

QueryConditions ==
  {<<>>,
   <<Entry("nosuch", Lit(1))>>,
   <<Entry("age", Map(<<Op("gt", <<1>>)>>))>>,
   <<Entry("age", Lit(2)), Entry("status", Lit(1))>>,
   <<Entry("age", Lit(2)), Entry("nosuch", Lit(1))>>,
   <<Entry("age", Lit(2)), Entry("status", Map(<<Op("bogus", <<1>>)>>))>>,
   <<Entry("age", AgeRange), Entry("status", Map(<<Op("isnull", <<1>>)>>))>>}

InitQuery ==
  /\ store \in QueryStores
  /\ committed = store
  /\ nextId = Cardinality(store) + 1
  /\ schemas = NoSchemas
  /\ bound = {}
  /\ primary_key_column = "None"
  /\ qb = <<>>
  /\ last = NoCall
  /\ pc = [field |-> "id", value |-> Lit(1), done |-> TRUE, out |-> parse_condition("id", Lit(1))]

QueryWhere ==
  \E conditions \in QueryConditions, operation \in Operations \cup {"XOR"} :
    /\ Idle
    /\ Len(qb) < MaxGroups
    /\ LET w == where_call(qb, conditions, operation) IN
       /\ qb' = w.groups
       /\ last' = Call("where", conditions, <<>>, operation, Null, "none", NoPage,
                       Out(store, nextId, <<>>, w.err, <<>>, Null, <<>>, {}))
    /\ UNCHANGED <<store, committed, nextId, schemas, bound, primary_key_column, pc>>

NextQuery ==
  \/ QueryGet
  \/ QueryWhere
  \/ Run
  \/ Return

SpecQuery == InitQuery /\ [][NextQuery]_vars

\* the compiler given operator maps over every key of the catalog, "exact"
\* and a key of no catalog, each key with an operand of the shape demanded
OperatorKeys ==
  {"gt", "gte", "lt", "lte", "ne", "in", "not_in",
   "like", "contains", "startswith", "endswith",
   "ilike", "icontains", "istartswith", "iendswith",
   "range", "between", "not_between", "isnull", "isnotnull",
   "year", "month", "day", "exact", "bogus"}

Operand(op) ==
  IF op \in {"in", "not_in", "range", "between", "not_between"} THEN <<1, 2>> ELSE <<1>>

KeyMaps ==
  LET keys == OperatorKeys IN
  UNION {{[i \in 1..n |-> Op(ks[i], Operand(ks[i]))] :
            ks \in {q \in [1..n -> keys] : \A i, j \in 1..n : i # j => q[i] # q[j]}} :
         n \in 1..MaxOps}

InitCatalog ==
  /\ store = {}
  /\ committed = {}
  /\ nextId = 1
  /\ schemas = NoSchemas
  /\ bound = {}
  /\ primary_key_column = "None"
  /\ qb = <<>>
  /\ last = NoCall
  /\ \E field \in Names, m \in KeyMaps :
       pc = [field |-> field, value |-> Map(m), done |-> FALSE, out |-> NotParsed]

SpecCatalog == InitCatalog /\ [][NextCompile]_vars

\* the suspending variants on a session the caller also works with: between
\* two calls the caller changes the session, adding an instance or setting
\* an attribute of a loaded one, without committing
SessionStores ==
  {{},
   {[id |-> 1, age |-> 1, status |-> Null]},
   {[id |-> 1, age |-> 1, status |-> Null], [id |-> 2, age |-> 2, status |-> Null]}}

InitSession ==
  /\ store \in SessionStores
  /\ committed = store
  /\ nextId = Cardinality(store) + 1
  /\ schemas \in {NoSchemas, UserSchemas}
  /\ bound = HandlerNames
  /\ primary_key_column = "None"
  /\ qb = <<>>
  /\ last = NoCall
  /\ pc = [field |-> "id", value |-> Lit(1), done |-> TRUE, out |-> parse_condition("id", Lit(1))]

\* session.add(User(age=2)) by the caller
CallerAdd ==
  /\ Free
  /\ store = committed
  /\ nextId <= MaxId
  /\ store' = store \cup {[id |-> nextId, age |-> 2, status |-> Null]}
  /\ nextId' = nextId + 1
  /\ UNCHANGED <<committed, schemas, bound, primary_key_column, qb, last, pc>>

\* instance.status = 2 by the caller, on an instance loaded in the session
CallerSet ==
  \E r \in store :
    /\ Free
    /\ store = committed
    /\ r.status # 2
    /\ store' = (store \ {r}) \cup {[r EXCEPT !.status = 2]}
    /\ UNCHANGED <<committed, nextId, schemas, bound, primary_key_column, qb, last, pc>>

NextSession ==
  \/ CallerAdd
  \/ CallerSet
  \/ CreateAsync
  \/ FindAsync
  \/ FetchAsync
  \/ CountAsync
  \/ UpdateAsync
  \/ DeleteAsync
  \/ RunAsync
  \/ Return

SpecSession == InitSession /\ [][NextSession]_vars

\* ================================================================== claims
HandlerOps == {"create", "find", "fetch", "count", "update", "delete"}
FilterOps == {"find", "fetch", "count", "update", "delete"}
MutatingOps == {"create", "update", "delete", "update_fields", "destroy"}
SessionOps == HandlerOps \cup {"update_fields", "destroy", "run"}
Called(step) == step \in Elems(last.calls)
\* the call was given a session it can use: the scoped session of the blocking
\* variant, or an AsyncSession handed to the suspending variant
SessionGiven == last.session # "Session"
\* the engine failed the step last.fault of this call
StepFailed == last.fault \in Steps /\ Called(last.fault)
\* a payload an UPDATE can carry: some columns, each set to a literal
PlainPayload(data) ==
  /\ data # <<>>
  /\ Keys(data) \subseteq DeclaredFields
  /\ \A i \in DOMAIN data : data[i].val.t = "lit"
\* the schema, when bound, rejects data
FailsSchema(schema, data) == schema.bound /\ Violations(schema, data) # <<>>
\* the record satisfies one operator entry on the field
Sat(r, field, e) == LeafEval(IF e.op = "exact" THEN "eq" ELSE e.op, r[field], e.a) = "T"
Reorderings(m) == {[i \in DOMAIN m |-> m[p[i]]] : p \in Perms(DOMAIN m)}

\* C1: every handler that takes a filter raises a Field Resolution Error on a
\* filter naming an undeclared field, before any unit-of-work call.
C1_UndeclaredFilterFieldRaises ==
  (/\ last.op \in FilterOps
   /\ last.fault = "none" /\ SessionGiven
   /\ last.pre # {}
   /\ Keys(last.filter) \ DeclaredFields # {})
  => (last.err = "FieldNotFound" /\ last.calls = <<>>)

C3_FailureLeavesStoreAsBefore ==
  StepFailed
  => /\ last.calls[Len(last.calls)] = "rollback"
     /\ last.err = EngineError(last.fault)
     /\ (last.op \in MutatingOps => store = last.pre)

\* C3 as amended: the store is as before when execute or commit failed; when
\* refresh failed the commit has gone through, so Create has added its record
\* and update_fields has changed its row, and the rollback undoes neither.
C3_RollbackAndReraise ==
  StepFailed
  => /\ last.calls[Len(last.calls)] = "rollback"
     /\ Cardinality({i \in DOMAIN last.calls : last.calls[i] = "rollback"}) = 1
     /\ last.err = EngineError(last.fault)
     /\ (last.op \in MutatingOps /\ last.fault \in {"execute", "commit"} => store = last.pre)
     /\ (last.op = "create" /\ last.fault = "refresh"
           => \E r \in store : r \notin last.pre /\ store = last.pre \cup {r})
     /\ (last.op = "update_fields" /\ last.fault = "refresh"
           => /\ Ids(store) = Ids(last.pre)
              /\ \A r \in store :
                   IF r.id # last.inst THEN r \in last.pre
                   ELSE \A i \in DOMAIN last.payload :
                          last.payload[i].key \in DeclaredFields
                            => r[last.payload[i].key] = last.payload[i].val.v)

C3_Witness ==
  /\ last.op = "update" /\ last.fault = "commit" /\ StepFailed
  /\ last.err = "CommitError"
  /\ last.pre # {} /\ store = last.pre
  /\ \E r \in last.pre : Apply(r, last.payload) # r

\* C4: with a schema bound, a payload or filter that fails it raises a Schema
\* Validation Error carrying every violation, and nothing is executed, added or
\* committed and the store is unchanged; for Update, whichever of the filter
\* and the payload fails its schema.
C4_SchemaFailureRaises ==
  LET filterFails == last.op \in FilterOps /\ FailsSchema(schemas.filter, last.filter)
      payloadFails ==
        \/ last.op = "create" /\ FailsSchema(schemas.create, last.payload)
        \/ last.op = "update" /\ FailsSchema(schemas.update, last.payload)
  IN (SessionGiven /\ (filterFails \/ payloadFails))
     => /\ last.err = "SchemaValidationError"
        /\ last.errors = (IF filterFails THEN Violations(schemas.filter, last.filter)
                          ELSE IF last.op = "create" THEN Violations(schemas.create, last.payload)
                          ELSE Violations(schemas.update, last.payload))
        /\ ~Called("execute") /\ ~Called("add") /\ ~Called("commit")
        /\ store = last.pre

\* C5: when validation or statement compilation fails inside a handler, none of
\* execute, commit, refresh or rollback is called on the session.
C5_NoSessionCallOnValidationFailure ==
  (last.op \in HandlerOps /\ last.err \in {"SchemaValidationError", "TypeError", "AttributeError"})
  => (~Called("execute") /\ ~Called("commit") /\ ~Called("refresh") /\ ~Called("rollback"))

\* C6: every synchronous entry point has committed or rolled back its scoped
\* session on every return path before it returns.
C6_SessionCommittedOrRolledBack ==
  (last.op \in SessionOps /\ last.variant = "sync")
  => (Called("commit") \/ Called("rollback"))

\* C7: a handler's statement selects what the Condition Compiler makes of the
\* filter: with an operator map as a value, exactly the records satisfying
\* every listed operator, the records QueryBuilder.where selects with AND.
C7_HandlersUseConditionCompiler ==
  (/\ last.op \in FilterOps
   /\ last.fault = "none" /\ SessionGiven
   /\ ~schemas.filter.bound
   /\ last.pre # {}
   /\ Keys(last.filter) \subseteq DeclaredFields
   /\ (last.op = "update" => PlainPayload(last.payload)))
  => /\ last.err = "none"
     /\ last.sel = Ids(Selected(last.pre, where_call(<<>>, last.filter, "AND").groups))

\* C8: on a declared field, a literal v and the operator map {"exact": v}
\* compile to conditions matching the same records, those whose field is v.
C8_LiteralIsExact ==
  (pc.done /\ pc.field \in DeclaredFields /\ pc.value.t = "lit")
  => LET e == parse_condition(pc.field, Map(<<Op("exact", <<pc.value.v>>)>>)) IN
     /\ pc.out.err = "none"
     /\ e.err = "none"
     /\ \A r \in RecordUniverse :
          /\ Matches(pc.out.cond, r) <=> Matches(e.cond, r)
          /\ Matches(pc.out.cond, r) <=> r[pc.field] = pc.value.v

C8_Witness ==
  /\ pc.done /\ pc.field = "age" /\ pc.value = Lit(2)
  /\ \E r \in RecordUniverse : Matches(pc.out.cond, r)
  /\ \E r \in RecordUniverse : ~Matches(pc.out.cond, r)

\* C9: an operator map with two or more keys on a declared field matches a
\* record iff the record satisfies every listed operator, in whatever order
\* the keys are written.
C9_SameFieldOperatorsConjoin ==
  (/\ pc.done /\ pc.field \in DeclaredFields /\ pc.value.t = "map"
   /\ Len(pc.value.m) >= 2
   /\ \A i \in DOMAIN pc.value.m : pc.value.m[i].op \in OPERATORS \cup {"exact"})
  => /\ pc.out.err = "none"
     /\ \A r \in RecordUniverse :
          Matches(pc.out.cond, r) <=> \A i \in DOMAIN pc.value.m : Sat(r, pc.field, pc.value.m[i])
     /\ \A m \in Reorderings(pc.value.m) : \A r \in RecordUniverse :
          Matches(parse_condition(pc.field, Map(m)).cond, r) <=> Matches(pc.out.cond, r)

C9_Witness ==
  /\ pc.done /\ pc.field = "age"
  /\ pc.value = Map(<<Op("gte", <<2>>), Op("ne", <<2>>)>>)
  /\ \A r \in RecordUniverse : ~Matches(pc.out.cond, r)
  /\ \E r \in RecordUniverse : Sat(r, "age", Op("gte", <<2>>))
  /\ \E r \in RecordUniverse : Sat(r, "age", Op("ne", <<2>>))

\* C10: parse_condition on a name that is no declared field fails with a Field
\* Resolution Error for every value, before any operator key is examined.
C10_UndeclaredFieldFails ==
  (pc.done /\ pc.field \notin DeclaredFields)
  => (pc.out.err = "FieldNotFound" /\ pc.out.examined = 0)

\* C11: on a declared field, an operator map whose keys are all catalog names
\* compiles to one leaf condition per key, in the order of the keys; a map
\* with a key outside the catalog fails with an Unsupported Operator Error,
\* whatever its other keys are.
CatalogNames ==
  {"gt", "gte", "lt", "lte", "ne", "in", "not_in", "like", "contains",
   "startswith", "endswith", "ilike", "icontains", "istartswith", "iendswith",
   "range", "between", "not_between", "isnull", "isnotnull", "year", "month",
   "day", "exact"}
Leaves(c) == IF c.k = "and" THEN c.args ELSE <<c>>

C11_CatalogKeysCompileOthersFail ==
  (pc.done /\ pc.field \in DeclaredFields /\ pc.value.t = "map" /\ pc.value.m # <<>>)
  => LET m == pc.value.m IN
     IF \A i \in DOMAIN m : m[i].op \in CatalogNames
     THEN /\ pc.out.err = "none"
          /\ Len(Leaves(pc.out.cond)) = Len(m)
          /\ \A i \in DOMAIN m :
               /\ Leaves(pc.out.cond)[i].k = "cmp"
               /\ Leaves(pc.out.cond)[i].f = pc.field
               /\ Leaves(pc.out.cond)[i].op = (IF m[i].op = "exact" THEN "eq" ELSE m[i].op)
               /\ Leaves(pc.out.cond)[i].a = m[i].a
     ELSE pc.out.err = "UnsupportedOperator"

C11_Witness ==
  /\ pc.done /\ pc.field = "age"
  /\ pc.value = Map(<<Op("day", <<1>>), Op("bogus", <<1>>)>>)
  /\ pc.out.err = "UnsupportedOperator"
  /\ pc.out.examined = 2

\* C12: after Update(F, P) with the fields of P disjoint from those of F has
\* returned n, a Count with the filter F merged with P issued next returns n.
C12_UpdateThenCountAgree ==
  (/\ last.op = "update" /\ last.err = "none"
   /\ Keys(last.filter) \cap Keys(last.payload) = {})
  => /\ last.ret = Cardinality(last.sel)
     /\ Count_call(last.filter \o last.payload, "none").err = "none"
     /\ Count_call(last.filter \o last.payload, "none").ret = last.ret

C12_Witness ==
  /\ last.op = "update" /\ last.err = "none"
  /\ last.filter = <<Entry("age", Lit(1))>> /\ last.payload = <<Entry("status", Lit(1))>>
  /\ Cardinality(last.pre) = 2 /\ last.ret = 1
  /\ store # last.pre
  /\ Count_call(last.filter \o last.payload, "none").ret = 1

\* C13: Fetch with no order specification returns the matching records in
\* non-decreasing order of the primary key, whatever order the engine is free
\* to choose, so repeated calls on the same store return the same sequence,
\* and the pages of any limit, taken at successive offsets, concatenate to the
\* whole sequence: no record twice, none skipped.
FetchedRows == {r \in store : r.id \in last.sel}
EngineOrders(order_by) ==
  UNION {Orderings(FetchedRows, order_clauses(order_by), b) : b \in BOOLEAN}
Refetch(limit, offset) ==
  {Fetch_call(last.filter, limit, offset, last.page.order, "none", rows).rows :
     rows \in EngineOrders(last.page.order)}
RECURSIVE Paged(_, _)
Paged(limit, offset) ==
  IF offset >= Cardinality(FetchedRows) THEN {<<>>}
  ELSE {a \o b : a \in Refetch(limit, offset), b \in Paged(limit, offset + limit)}

FindById(id) == Find_call(<<Entry("id", Lit(id))>>, "none", id)

C14_CreateThenFindAgree ==
  (last.op = "create" /\ last.err = "none")
  => /\ last.ret \notin Ids(last.pre)
     /\ \E r \in store :
          /\ r.id = last.ret
          /\ store = last.pre \cup {r}
          /\ \A i \in DOMAIN last.payload :
               last.payload[i].key \in DeclaredFields
                 => r[last.payload[i].key] = last.payload[i].val.v
     /\ FindById(last.ret).err = "none"
     /\ FindById(last.ret).sel = {last.ret}
     /\ FindById(last.ret).ret = last.ret

C14_Witness ==
  /\ last.op = "create" /\ last.err = "none"
  /\ last.payload = <<Entry("age", Lit(2))>>
  /\ last.pre # {} /\ last.ret = 2
  /\ [id |-> 2, age |-> 2, status |-> Null] \in store
  /\ FindById(2).ret = 2

\* C15: bind_crud given a triple whose name is not the record type's, or that
\* lacks a sub-schema, or one of whose sub-schemas is no class, raises a Schema
\* Binding Error and assigns none of the eight handlers: what was bound before
\* the call, and the schemas it held, are as they were.
InvalidTriple(vs) ==
  /\ vs.given
  /\ \/ vs.name # "User"
     \/ SubSchemas \ vs.present # {}
     \/ vs.present \ vs.types # {}

C15_InvalidTripleBindsNothing ==
  (last.op = "bind_crud" /\ InvalidTriple(last.vs))
  => /\ last.err = "SchemaBindingError"
     /\ last.assigned \cap HandlerNames = {}
     /\ bound = last.preBound
     /\ schemas = last.preSchemas

C15_Witness ==
  /\ last.op = "bind_crud"
  /\ last.vs = Triple("User", SubSchemas, SubSchemas \ {"UpdateSchema"}, UserSchemas)
  /\ last.err = "SchemaBindingError"
  /\ last.preSchemas = UserSchemas /\ schemas = UserSchemas
  /\ bound = HandlerNames

\* C16: a mutating operation that succeeds commits exactly once, right after
\* its add / execute / delete step; Create and update_fields refresh the
\* instance after that commit and at no other point; Find, Fetch, Count and
\* run never commit, whether they succeed or fail.
Positions(step) == {i \in DOMAIN last.calls : last.calls[i] = step}

C16_CommitOnceThenRefresh ==
  /\ (last.op \in MutatingOps /\ last.err = "none")
     => /\ Len(last.calls) >= 2
        /\ last.calls[1] = (IF last.op \in {"create", "update_fields"} THEN "add"
                            ELSE IF last.op = "destroy" THEN "delete" ELSE "execute")
        /\ Positions("commit") = {2}
        /\ ~Called("rollback")
        /\ IF last.op \in {"create", "update_fields"}
           THEN Positions("refresh") = {3} /\ Len(last.calls) = 3
           ELSE Positions("refresh") = {} /\ Len(last.calls) = 2
  /\ (last.op \in MutatingOps /\ Called("refresh"))
     => \E i \in Positions("commit") : \A j \in Positions("refresh") : i < j
  /\ (last.op \in {"find", "fetch", "count", "run"}) => ~Called("commit")

C16_Witness ==
  /\ last.op = "update_fields" /\ last.err = "none"
  /\ last.calls = <<"add", "commit", "refresh">>
  /\ store # last.pre

\* C17: from the same store and with the same inputs, the suspending variant
\* of Create, Find, Fetch, Count, Update, Delete and run, given an AsyncSession,
\* gives what the blocking variant gives: the same result or error, the same
\* store afterwards and the same sequence of unit-of-work calls.
FetchOrders(filter, page) ==
  LET w == handler_where(validate_schema(schemas.filter, filter).data)
      sel == IF BadBind(w) THEN {} ELSE Selected(store, w)
  IN UNION {Orderings(sel, order_clauses(page.order), b) : b \in BOOLEAN}

C17_VariantsAgree ==
  Idle =>
    /\ \A payload \in Payloads, fault \in {"none", "commit", "refresh"} :
         Create_async("AsyncSession", payload, fault) = Create_call(payload, fault)
    /\ \A filter \in Filters, fault \in {"none", "execute"}, pick \in Ids(store) \cup {Null} :
         Find_async("AsyncSession", filter, fault, pick) = Find_call(filter, fault, pick)
    /\ \A filter \in Filters, fault \in {"none", "execute"} :
         Count_async("AsyncSession", filter, fault) = Count_call(filter, fault)
    /\ \A filter \in Filters, payload \in Payloads, fault \in {"none", "execute", "commit"} :
         Update_async("AsyncSession", filter, payload, fault) = Update_call(filter, payload, fault)
    /\ \A filter \in Filters, fault \in {"none", "execute", "commit"} :
         Delete_async("AsyncSession", filter, fault) = Delete_call(filter, fault)
    /\ \A filter \in FetchFilters, page \in Pages, fault \in {"none", "execute"} :
         \A rows \in FetchOrders(filter, page) :
           Fetch_async("AsyncSession", filter, page.limit, page.offset, page.order, fault, rows)
             = Fetch_call(filter, page.limit, page.offset, page.order, fault, rows)
    /\ \A fault \in {"none", "execute"}, rows \in Perms(Selected(store, qb)) :
         Run_async("AsyncSession", qb, fault, rows) = Run_call(qb, fault, rows)

C17_Witness ==
  /\ last.op = "update" /\ last.variant = "async" /\ last.session = "AsyncSession"
  /\ last.err = "none" /\ last.calls = <<"execute", "commit">>
  /\ last.ret = 2 /\ store # last.pre

\* C18: Fetch with an order specification returns the selected records sorted
\* by the listed fields in the order given, ascending or, with the '-'
\* prefix, descending; a listed name that is no declared field is skipped
\* without error and the declared ones still order the result.
IsDeclared(o) == o.name \in DeclaredFields
RecordOf(id) == CHOOSE r \in store : r.id = id

C18_OrderSpecification ==
  (/\ last.op = "fetch" /\ last.fault = "none" /\ SessionGiven
   /\ last.pre # {}
   /\ last.page.order # <<>>
   /\ last.filter \in {<<>>, <<Entry("age", Lit(1))>>})
  => /\ last.err = "none"
     /\ \E nullsLast \in BOOLEAN : \A i, j \in DOMAIN last.rows :
          i < j => ~Before(RecordOf(last.rows[j]), RecordOf(last.rows[i]),
                           SelectSeq(last.page.order, IsDeclared), nullsLast)

\* C19: update_fields sets on the instance exactly the payload keys that name
\* an attribute it has, ignores the other keys without error, leaves the
\* attributes the payload does not name as they were, commits, and returns
\* the instance it was called on; no other record changes.
Before19 == CHOOSE r \in last.pre : r.id = last.inst

FieldVal(r, e) ==
  IF e.val.t = "lit" THEN LeafEval("eq", r[e.key], <<e.val.v>>)
  ELSE LET vs == {LeafEval(IF o.op = "exact" THEN "eq" ELSE o.op, r[e.key], o.a) :
                    o \in Elems(e.val.m)}
       IN IF "F" \in vs THEN "F" ELSE IF "U" \in vs THEN "U" ELSE "T"

\* a record satisfies a group when the group's SQL condition is true of it:
\* the negation is SQL's NOT, so NOT_ALL holds when some condition is false and
\* NOT_ANY when every condition is false
GroupHolds(conds, tag, r) ==
  IF tag = "AND" THEN \A i \in DOMAIN conds : FieldVal(r, conds[i]) = "T"
  ELSE IF tag = "OR" THEN \E i \in DOMAIN conds : FieldVal(r, conds[i]) = "T"
  ELSE IF tag = "NOT_ALL" THEN \E i \in DOMAIN conds : FieldVal(r, conds[i]) = "F"
  ELSE \A i \in DOMAIN conds : FieldVal(r, conds[i]) = "F"

RunSelectsAllGroups ==
  (last.op = "run" /\ last.fault = "none" /\ SessionGiven)
  => /\ last.err = "none"
     /\ last.sel = Ids({r \in store : \A i \in DOMAIN qb : Matches(qb[i], r)})
     /\ Elems(last.rows) = last.sel /\ Len(last.rows) = Cardinality(last.sel)
     /\ (qb = <<>> => last.sel = Ids(store))
WhereKeepsGroups ==
  (last.op = "where" /\ (last.filter = <<>> \/ last.err # "none")) => qb = last.preGroups

\* C20: each where call with a non-empty mapping adds one group and changes
\* no earlier one, the group being the conjunction (AND), the disjunction
\* (OR), the negated conjunction (NOT_ALL) or the negated disjunction
\* (NOT_ANY) of its per-field conditions; a where call with an empty mapping
\* adds none; run selects exactly the records of which every group is true,
\* and every record when there is no group.
C20_GroupsInSqlLogic ==
  /\ (last.op = "where" /\ last.err = "none" /\ last.filter # <<>>)
     => /\ Len(qb) = Len(last.preGroups) + 1
        /\ SubSeq(qb, 1, Len(last.preGroups)) = last.preGroups
        /\ \A r \in RecordUniverse :
             Matches(qb[Len(qb)], r) <=> GroupHolds(last.filter, last.tag, r)
  /\ WhereKeepsGroups
  /\ RunSelectsAllGroups

C20_Witness ==
  /\ last.op = "run" /\ last.err = "none"
  /\ Len(qb) = 2
  /\ Cardinality(store) = 2
  /\ last.sel = {1}
  /\ \E r \in store : r.age = Null /\ ~Matches(qb[1], r) /\ ~Matches(Not(qb[1]), r)

\* C21: where given a combinator tag outside AND, OR, NOT_ALL, NOT_ANY fails
\* with a Configuration Error for every conditions mapping, the empty one
\* included, and adds no group.
C21_UnsupportedTagFails ==
  (/\ last.op = "where" /\ last.tag \notin {"AND", "OR", "NOT_ALL", "NOT_ANY"}
   /\ where_call(<<>>, last.filter, "AND").err = "none")
  => (last.err = "UnsupportedOperation" /\ qb = last.preGroups)

\* C22: a suspending operation handed a session that is no AsyncSession raises
\* the Execution-Context Type Error before it validates or compiles anything
\* and without one call on that session, rollback included; the store is as
\* it was.
C22_NonAsyncSessionRejected ==
  (last.variant = "async" /\ last.session # "AsyncSession")
  => /\ last.err = "TypeError"
     /\ last.errors = <<>>
     /\ last.calls = <<>>
     /\ store = last.pre

C22_Witness ==
  /\ last.variant = "async" /\ last.session = "Session"
  /\ last.op = "create" /\ schemas.create.bound
  /\ Violations(schemas.create, last.payload) # <<>>
  /\ last.err = "TypeError" /\ last.calls = <<>>
  /\ store # {}

\* C23: no call changes state a later call reads: every field of every
\* handler object keeps the value it was constructed with, as
\* Fetch._primary_key_column, constructed as None.
C23_HandlerFieldsAsConstructed ==
  primary_key_column = "None"

\* C24: Update(F, P), F over declared fields and P a payload of literals on
\* declared fields, returns the number of records that matched F before the
\* call; afterwards each of them has the fields of P set to P's values and
\* its other fields as before, every other record is as before, and the
\* store holds the same records by identifier as before.
PlainFilter(data) ==
  /\ Keys(data) \subseteq DeclaredFields
  /\ \A i \in DOMAIN data : data[i].val.t = "lit"
MatchesFilter(r, data) == \A i \in DOMAIN data : r[data[i].key] = data[i].val.v
Updated(r, data) ==
  [f \in DeclaredFields |-> IF f \in Keys(data) THEN Get(data, f).v ELSE r[f]]

C24_UpdateFrame ==
  (/\ last.op = "update" /\ last.fault = "none" /\ SessionGiven
   /\ PlainFilter(last.filter) /\ PlainPayload(last.payload))
  => /\ last.err = "none"
     /\ last.ret = Cardinality({r \in last.pre : MatchesFilter(r, last.filter)})
     /\ store = {IF MatchesFilter(r, last.filter) THEN Updated(r, last.payload) ELSE r :
                   r \in last.pre}
     /\ Ids(store) = Ids(last.pre)
     /\ Cardinality(store) = Cardinality(last.pre)

C24_Witness ==
  /\ last.op = "update" /\ last.err = "none"
  /\ last.filter = <<Entry("age", Lit(1))>> /\ last.payload = <<Entry("status", Lit(1))>>
  /\ last.pre = {[id |-> 1, age |-> 1, status |-> Null], [id |-> 2, age |-> 2, status |-> Null]}
  /\ store = {[id |-> 1, age |-> 1, status |-> 1], [id |-> 2, age |-> 2, status |-> Null]}
  /\ last.ret = 1

\* C25: a successful Fetch returns the slice [offset, offset + limit) of the
\* ordered matching records, for every supplied limit and offset, 0
\* included: at most limit records, exactly offset records skipped.
Slice(rows, limit, offset) ==
  LET from == IF offset = Null THEN 0 ELSE offset
      upto == IF limit = Null THEN Len(rows) ELSE Min(Len(rows), from + limit)
  IN SubSeq(rows, from + 1, upto)

C25_LimitOffsetSlice ==
  (last.op = "fetch" /\ last.err = "none")
  => /\ last.page.limit # Null => Len(last.rows) <= last.page.limit
     /\ \E full \in EngineOrders(last.page.order) :
          last.rows = IdsOf(Slice(full, last.page.limit, last.page.offset))

\* C26: Delete or Update with a non-empty filter whose keys all name
\* undeclared fields restricts nothing: the statement affects every record
\* (Delete leaves the store empty), is committed, and no error is raised.
UnrestrictedCall ==
  /\ last.op \in {"delete", "update"} /\ last.fault = "none" /\ SessionGiven
  /\ last.filter # <<>> /\ Keys(last.filter) \cap DeclaredFields = {}
  /\ ~FailsSchema(schemas.filter, last.filter)
  /\ last.op = "update" =>
       (PlainPayload(last.payload) /\ ~FailsSchema(schemas.update, last.payload))

C26_UndeclaredFilterAffectsAll ==
  UnrestrictedCall
  => /\ last.err = "none"
     /\ last.sel = Ids(last.pre)
     /\ last.ret = Cardinality(last.pre)
     /\ last.calls = <<"execute", "commit">>
     /\ last.op = "delete" => store = {}
     /\ last.op = "update" => store = {Updated(r, last.payload) : r \in last.pre}

\* the same for the keys the hasattr test drops, those that are no attribute
\* of the model class at all
C26_NoAttributeFilterAffectsAll ==
  (UnrestrictedCall /\ Keys(last.filter) \cap ClassAttrs = {})
  => /\ last.err = "none"
     /\ last.sel = Ids(last.pre)
     /\ last.ret = Cardinality(last.pre)
     /\ last.calls = <<"execute", "commit">>
     /\ last.op = "delete" => store = {}
     /\ last.op = "update" => store = {Updated(r, last.payload) : r \in last.pre}

AppendsOneGroup ==
  /\ Len(qb) = Len(last.preGroups) + 1
  /\ SubSeq(qb, 1, Len(last.preGroups)) = last.preGroups

C28_GroupsOnlyGrowByOne ==
  /\ last.op = "where" => (qb = last.preGroups \/ AppendsOneGroup)
  /\ (last.op = "where" /\ last.err = "none" /\ last.filter # <<>>) => AppendsOneGroup
  /\ (last.op = "where" /\ (last.err # "none" \/ last.filter = <<>>)) => qb = last.preGroups
  /\ last.op = "run" => qb = last.preGroups
  /\ last.op = "query" => qb = <<>>

C28_Witness ==
  /\ last.op = "where" /\ last.err = "FieldNotFound"
  /\ last.filter = <<Entry("age", Lit(2)), Entry("nosuch", Lit(1))>>
  /\ Len(last.preGroups) = 1
  /\ qb = last.preGroups

Borrowed == last.variant = "async" /\ last.session = "AsyncSession"
CallerPending == last.pre # last.preCommitted
ReadOps == {"find", "fetch", "count", "run"}

====
